---- MODULE Spec2Model ----
(***************************************************************************)
(* A model of preopen.py: the retry-wrapped fetch of the NSE pre-open      *)
(* data, the construction and de-duplication of the detail table, and the  *)
(* two sinks (CSV files and Google Sheets tabs).                           *)
(*                                                                         *)
(* Python values are records [type, repr, items]: type is the Python type  *)
(* ("num", "str", "dict", "list", "Series"), repr is the text str() gives  *)
(* for the value and items are the members of a container.  A JSON scalar  *)
(* is therefore never confused with its string rendering.                  *)
(***************************************************************************)
EXTENDS Integers, Sequences, FiniteSets, TLC

\* ------------------------------------------------------------------ bounds
MaxRetries == 3      \* retries is drawn from 0..MaxRetries
MaxItems == 3        \* entries of nse_data["data"] in the table-building runs
MaxLevels == 2       \* order-book levels of one entry
MaxRows == 2         \* data rows of a table handed to the upload function
MaxCols == 2         \* columns of a table handed to the upload function

\* ------------------------------------------------------- program constants
DefaultRetries == 3
DefaultDelay == 5
StatusOK == 200

SHEET_ID == "1IUChF0UFKMqVLxTI69lXBi-g48f-oTYqI1K9miipKgY"
url_fo == "https://www.nseindia.com/api/market-data-pre-open?key=FO"
\* The subset the comment above the call names.
CommentSubset == <<"symbol", "preOpenPrice", "buyQty", "sellQty">>

\* drop_duplicates(subset=[...])
DedupSubset == <<"symbol", "pChange", "lastPrice", "previousClose">>

\* The columns of the detail table, in the order of the row dictionary.
DetailColumns ==
    <<"symbol", "identifier", "purpose", "lastPrice", "change", "pChange",
      "previousClose", "finalQuantity", "totalTurnover", "marketCap",
      "yearHigh", "yearLow", "iep", "chartTodayPath", "preOpenPrice",
      "buyQty", "sellQty">>

\* ------------------------------------------------------------ Python values
Num(s) == [type |-> "num", repr |-> s, items |-> <<>>]
Text(s) == [type |-> "str", repr |-> s, items |-> <<>>]
Dict(s, vals) == [type |-> "dict", repr |-> s, items |-> vals]
List(s, vals) == [type |-> "list", repr |-> s, items |-> vals]
Series(name, vals) == [type |-> "Series", repr |-> name, items |-> vals]

IsNested(v) == v.type \in {"dict", "list"}

\* str(value): the string rendering of a value.
str(v) == [type |-> "str", repr |-> v.repr, items |-> <<>>]

\* flatten_data, applied to a whole dict or list; anything else is returned
\* unchanged.  (The keys of a dict are kept by the code and not modelled.)
flatten_data(data) ==
    IF data.type = "dict"
    THEN [data EXCEPT !.items = [i \in DOMAIN @ |-> str(@[i])]]
    ELSE IF data.type = "list"
         THEN [data EXCEPT !.items = [i \in DOMAIN @ |-> str(@[i])]]
         ELSE data

\* ------------------------------------------------------------------ tables
\* A DataFrame: the column names and the rows, each row a function from the
\* column names to cells.
DataFrame(cols, rows) == [columns |-> cols, rows |-> rows]
EmptyFrame == DataFrame(<<>>, <<>>)

\* dataframe.apply(f): f is called once per column with that column as a
\* Series, and the returned Series become the columns of the result.
Column(df, c) == Series(df.columns[c], [r \in DOMAIN df.rows |-> df.rows[r][df.columns[c]]])

FrameApply(df) ==
    LET out == [c \in DOMAIN df.columns |-> flatten_data(Column(df, c))]
    IN  DataFrame(df.columns,
                  [r \in DOMAIN df.rows |->
                      [n \in {df.columns[c] : c \in DOMAIN df.columns} |->
                          LET c == CHOOSE k \in DOMAIN df.columns : df.columns[k] = n
                          IN  out[c].items[r]]])

\* [dataframe.columns.values.tolist()] + dataframe.values.tolist()
Payload(df) ==
    <<[c \in DOMAIN df.columns |-> Text(df.columns[c])]>> \o
    [r \in DOMAIN df.rows |-> [c \in DOMAIN df.columns |-> df.rows[r][df.columns[c]]]]

\* drop_duplicates(subset, keep='first')
KeyOf(row, subset) == [i \in DOMAIN subset |-> row[subset[i]]]

RECURSIVE DropFrom(_, _, _)
DropFrom(rows, subset, seen) ==
    IF rows = <<>> THEN <<>>
    ELSE LET k == KeyOf(Head(rows), subset)
         IN  IF k \in seen
             THEN DropFrom(Tail(rows), subset, seen)
             ELSE <<Head(rows)>> \o DropFrom(Tail(rows), subset, seen \cup {k})

drop_duplicates(df, subset) == DataFrame(df.columns, DropFrom(df.rows, subset, {}))

\* drop_duplicates raises KeyError when a column of subset is missing.
HasColumns(df, subset) ==
    \A i \in DOMAIN subset : \E c \in DOMAIN df.columns : df.columns[c] = subset[i]

\* ------------------------------------------------------------ the response
\* One entry of nse_data["data"]: its metadata and the list found at
\* detail.preOpenMarket.preopen.
Level(j) ==
    [price  |-> Num("1" \o ToString(j)),
     buyQty |-> Num("5" \o ToString(j)),
     sellQty |-> Num("3" \o ToString(j))]

Item(sym, last, pchg, prev, chart, n) ==
    [metadata |->
        [symbol |-> Text(sym), identifier |-> Text(sym \o "-FUT"),
         purpose |-> Text("-"), lastPrice |-> Num(last), change |-> Num("1"),
         pChange |-> Num(pchg), previousClose |-> Num(prev),
         finalQuantity |-> Num("700"), totalTurnover |-> Num("70000"),
         marketCap |-> Text("-"), yearHigh |-> Num("120"), yearLow |-> Num("80"),
         iep |-> Num(last), chartTodayPath |-> chart],
     preopen |-> [j \in 1..n |-> Level(j)]]

ChartPath == Text("chart.svg")
ChartDict == Dict("{'path': 'chart.svg'}", <<Text("chart.svg")>>)

\* The row dictionaries of one entry, one per order-book level.
RowsOf(item) ==
    [j \in DOMAIN item.preopen |->
        [symbol |-> item.metadata.symbol,
         identifier |-> item.metadata.identifier,
         purpose |-> item.metadata.purpose,
         lastPrice |-> item.metadata.lastPrice,
         change |-> item.metadata.change,
         pChange |-> item.metadata.pChange,
         previousClose |-> item.metadata.previousClose,
         finalQuantity |-> item.metadata.finalQuantity,
         totalTurnover |-> item.metadata.totalTurnover,
         marketCap |-> item.metadata.marketCap,
         yearHigh |-> item.metadata.yearHigh,
         yearLow |-> item.metadata.yearLow,
         iep |-> item.metadata.iep,
         chartTodayPath |-> item.metadata.chartTodayPath,
         preOpenPrice |-> item.preopen[j].price,
         buyQty |-> item.preopen[j].buyQty,
         sellQty |-> item.preopen[j].sellQty]]

\* cleaned_data after the loop over nse_data["data"].
RECURSIVE BuildRows(_)
BuildRows(data) ==
    IF data = <<>> THEN <<>> ELSE RowsOf(Head(data)) \o BuildRows(Tail(data))

\* pd.DataFrame(list of row dictionaries): no rows give a frame without columns.
FrameOfRows(rows) ==
    IF rows = <<>> THEN EmptyFrame ELSE DataFrame(DetailColumns, rows)

\* The JSON document of a response: json is "object", "null" (Python None) or
\* "invalid" (a body response.json() cannot parse); keys are the top-level
\* keys present.
Body(keys, data) == [json |-> "object", keys |-> keys, data |-> data]
None == [json |-> "null", keys |-> {}, data |-> <<>>]
NotJson == [json |-> "invalid", keys |-> {}, data |-> <<>>]

Advances == Num("10")
Declines == Num("5")
Unchanged == Num("2")
SummaryKeys == {"advances", "declines", "unchanged"}
AllKeys == {"data"} \cup SummaryKeys

Base(n) == Item("ABC", "100", "1", "99", ChartPath, n)
OtherSymbol(n) == Item("XYZ", "100", "1", "99", ChartPath, n)
OtherLast(n) == Item("ABC", "101", "1", "99", ChartPath, n)
OtherChange(n) == Item("ABC", "100", "2", "99", ChartPath, n)
OtherClose(n) == Item("ABC", "100", "1", "98", ChartPath, n)
NestedChart(n) == Item("ABC", "100", "1", "99", ChartDict, n)

\* The documents the endpoint serves in the runs of the whole script.
Bodies ==
    { Body({"advances"}, <<>>),
      Body(AllKeys, <<>>),
      Body(AllKeys, <<Base(2)>>),
      Body({"data", "advances"}, <<NestedChart(1)>>),
      Body({"data"}, <<Base(1), OtherSymbol(1)>>) }

\* The documents of the table-building runs: up to MaxItems entries that
\* differ from one another in one key column, in the chart path or in the
\* number of order-book levels.
Entries ==
    UNION { {Base(n), OtherSymbol(n), OtherLast(n), OtherChange(n), OtherClose(n)} :
            n \in 0..MaxLevels } \cup {NestedChart(1)}

SeqsUpTo(S, n) == UNION { [1..k -> S] : k \in 0..n }

TableBodies == { Body(AllKeys, d) : d \in SeqsUpTo(Entries, MaxItems) }

\* preopen_summary: the columns present, in insertion order, and the one row.
SummaryColumns(doc) ==
    (IF "advances" \in doc.keys THEN <<"Advances">> ELSE <<>>) \o
    (IF "declines" \in doc.keys THEN <<"Declines">> ELSE <<>>) \o
    (IF "unchanged" \in doc.keys THEN <<"Unchanged">> ELSE <<>>)

SummaryValue(name) ==
    IF name = "Advances" THEN Advances
    ELSE IF name = "Declines" THEN Declines ELSE Unchanged

SummaryOf(doc) ==
    LET cols == SummaryColumns(doc)
    IN  [n \in {cols[c] : c \in DOMAIN cols} |-> SummaryValue(n)]

\* pd.DataFrame([preopen_summary]): one row, one column per key of the summary.
SummaryFrame(cols, summary) == DataFrame(cols, <<summary>>)

\* ------------------------------------------------------------------- state
VARIABLES
    pc,              \* position of the script
    retries, delay,  \* arguments of fetch_nse_data_with_retry
    attempt,         \* its counter of failed attempts
    response,        \* the response of the data request of this attempt
    nse_data,        \* what the fetch returned
    log,             \* the "Attempt n failed: e" lines
    sleeps,          \* the arguments of the time.sleep calls
    primeGets,       \* number of GETs of the market page
    dataGets,        \* number of GETs of the data URL
    exc,             \* the exception that is propagating or ended the script
    credentials,     \* the GOOGLE_SHEETS_CREDENTIALS environment variable
    cleaned_data, preopen_summary, df,
    files,           \* the CSV files written
    sheet,           \* the spreadsheet: existing tab name -> cells
    upc,             \* position inside upload_to_google_sheets
    upTab, upDf,     \* its arguments tab_name and dataframe
    ops,             \* the spreadsheet operations issued by the current call
    prior            \* the cells of tab upTab when the current call began

fetchVars == <<retries, delay, attempt, response, nse_data, log, sleeps, primeGets, dataGets>>
tableVars == <<cleaned_data, preopen_summary, df>>
uploadVars == <<sheet, upc, upTab, upDf, ops, prior>>
vars == <<pc, fetchVars, exc, credentials, tableVars, files, uploadVars>>

NoExc == [kind |-> "none", at |-> "none", try |-> 0]
NoResponse == [status |-> 0, body |-> None]
NoCells == [p \in {} |-> Text("")]

Tabs == {"Preopen", "FO Preopen Data"}
Environment == {"absent", "empty", "valid"}
Delays == {1, DefaultDelay}

\* What an earlier run left in the "Preopen" tab.
EarlierFrame == FrameOfRows(BuildRows(<<Base(1), OtherSymbol(1), OtherLast(1)>>))

CellsOf(values) ==
    [p \in {<<r, c>> : r \in DOMAIN values, c \in 1..Len(values[1])} |-> values[p[1]][p[2]]]

\* ------------------------------------------- fetch_nse_data_with_retry
\* while attempt < retries
LoopGuard(a, r) == a < r

\* A handler that compares with <= goes round once more.
RetryAgainInclusive(a, r) == a <= r

\* if attempt < retries: sleep and go round again; else: raise
RetryAgain(a, r) == a < r

\* A delay that grows with the attempt number.
SleepBackoff(d, a) == d * a

\* time.sleep(delay)
SleepTime(d, a) == d

\* A handler that raises the first error it saw.
ReraiseFirst(lines, e) == lines[1].error

\* The bare raise of the handler re-raises the exception being handled.
Reraise(lines, e) == e

\* The error of attempt number try of the loop.
Error(kind, try) == [kind |-> kind, at |-> "fetch", try |-> try]

\* except Exception as e: count the attempt, log it, then sleep or raise.
Handle(e) ==
    LET a == attempt + 1
        lines == Append(log, [attempt |-> a, error |-> e])
    IN  /\ attempt' = a
        /\ log' = lines
        /\ IF RetryAgain(a, retries)
           THEN /\ sleeps' = Append(sleeps, SleepTime(delay, a))
                /\ pc' = "loop"
                /\ exc' = NoExc
           ELSE /\ sleeps' = sleeps
                /\ pc' = "crashed"
                /\ exc' = Reraise(lines, e)

\* The loop condition holds: a new attempt starts.
StartAttempt ==
    /\ pc = "loop"
    /\ LoopGuard(attempt, retries)
    /\ pc' = "prime"
    /\ UNCHANGED <<fetchVars, exc, credentials, tableVars, files, uploadVars>>

\* The loop condition fails: the function ends without a return statement.
LoopExit ==
    /\ pc = "loop"
    /\ ~LoopGuard(attempt, retries)
    /\ nse_data' = None
    /\ pc' = "process"
    /\ UNCHANGED <<retries, delay, attempt, response, log, sleeps, primeGets, dataGets,
                   exc, credentials, tableVars, files, uploadVars>>

\* session.get(market page) succeeds; its status is not looked at.
PrimeSucceeds ==
    /\ pc = "prime"
    /\ primeGets' = primeGets + 1
    /\ pc' = "data"
    /\ UNCHANGED <<retries, delay, attempt, response, nse_data, log, sleeps, dataGets,
                   exc, credentials, tableVars, files, uploadVars>>

\* session.get(market page) raises.
PrimeFails ==
    /\ pc = "prime"
    /\ primeGets' = primeGets + 1
    /\ Handle(Error("prime", primeGets + 1))
    /\ UNCHANGED <<retries, delay, response, nse_data, dataGets,
                   credentials, tableVars, files, uploadVars>>

\* session.get(url) returns a response.
DataResponds ==
    /\ pc = "data"
    /\ dataGets' = dataGets + 1
    /\ \E st \in {StatusOK, 503}, doc \in Bodies \cup {NotJson} :
          /\ st # StatusOK => doc = NotJson
          /\ response' = [status |-> st, body |-> doc]
    /\ pc' = "check"
    /\ UNCHANGED <<retries, delay, attempt, nse_data, log, sleeps, primeGets,
                   exc, credentials, tableVars, files, uploadVars>>

\* session.get(url) raises.
DataFails ==
    /\ pc = "data"
    /\ dataGets' = dataGets + 1
    /\ Handle(Error("request", primeGets))
    /\ UNCHANGED <<retries, delay, response, nse_data, primeGets,
                   credentials, tableVars, files, uploadVars>>

\* status 200 and a body that parses: return response.json()
ReturnJson ==
    /\ pc = "check"
    /\ response.status = StatusOK
    /\ response.body.json # "invalid"
    /\ nse_data' = response.body
    /\ pc' = "process"
    /\ UNCHANGED <<retries, delay, attempt, response, log, sleeps, primeGets, dataGets,
                   exc, credentials, tableVars, files, uploadVars>>

\* status 200 and response.json() raises.
ParseFails ==
    /\ pc = "check"
    /\ response.status = StatusOK
    /\ response.body.json = "invalid"
    /\ Handle(Error("parse", primeGets))
    /\ UNCHANGED <<retries, delay, response, nse_data, primeGets, dataGets,
                   credentials, tableVars, files, uploadVars>>

\* any other status: raise ValueError
BadStatus ==
    /\ pc = "check"
    /\ response.status # StatusOK
    /\ Handle(Error("status", primeGets))
    /\ UNCHANGED <<retries, delay, response, nse_data, primeGets, dataGets,
                   credentials, tableVars, files, uploadVars>>

Fetch ==
    \/ StartAttempt \/ LoopExit \/ PrimeSucceeds \/ PrimeFails
    \/ DataResponds \/ DataFails \/ ReturnJson \/ ParseFails \/ BadStatus

\* ------------------------------------------------- building the tables
\* if nse_data and "data" in nse_data
HasData(doc) == doc.json = "object" /\ doc.keys # {} /\ "data" \in doc.keys

\* The rows are built and de-duplicated.
BuildTable ==
    /\ pc = "process"
    /\ HasData(nse_data)
    /\ HasColumns(FrameOfRows(BuildRows(nse_data.data)), DedupSubset)
    /\ cleaned_data' = BuildRows(nse_data.data)
    /\ preopen_summary' = SummaryOf(nse_data)
    /\ df' = drop_duplicates(FrameOfRows(BuildRows(nse_data.data)), DedupSubset)
    /\ pc' = "csv_data"
    /\ UNCHANGED <<fetchVars, exc, credentials, files, uploadVars>>

\* No row was built: the frame has no columns and drop_duplicates raises.
BuildTableRaises ==
    /\ pc = "process"
    /\ HasData(nse_data)
    /\ ~HasColumns(FrameOfRows(BuildRows(nse_data.data)), DedupSubset)
    /\ cleaned_data' = BuildRows(nse_data.data)
    /\ preopen_summary' = SummaryOf(nse_data)
    /\ df' = FrameOfRows(BuildRows(nse_data.data))
    /\ exc' = [kind |-> "KeyError", at |-> "drop_duplicates", try |-> 0]
    /\ pc' = "crashed"
    /\ UNCHANGED <<fetchVars, credentials, files, uploadVars>>

\* else: "No 'data' found in the response." is logged and the script ends.
NoData ==
    /\ pc = "process"
    /\ ~HasData(nse_data)
    /\ pc' = "done"
    /\ UNCHANGED <<fetchVars, exc, credentials, tableVars, files, uploadVars>>

\* ----------------------------------------------------------- the CSV sink
\* to_csv(name) at position here: the file is written, or the write raises.
ToCsv(here, name, next) ==
    /\ pc = here
    /\ \/ /\ files' = files \cup {name}
          /\ pc' = next
          /\ exc' = exc
       \/ /\ files' = files
          /\ pc' = "crashed"
          /\ exc' = [kind |-> "OSError", at |-> here, try |-> 0]
    /\ UNCHANGED <<fetchVars, credentials, tableVars, uploadVars>>

SaveDataCsv == ToCsv("csv_data", "preopen_data.csv", "upload_preopen")
SavePreopenCsv == ToCsv("csv_preopen", "preopen.csv", "upload_fo")
SaveSummaryCsv == ToCsv("csv_fo", "FO Preopen Data.csv", "done")

\* ------------------------------------------------ upload_to_google_sheets
Op(name, result, rows, cols, values) ==
    [op |-> name, result |-> result, rows |-> rows, cols |-> cols, values |-> values]

SheetError(opname) == [kind |-> "APIError", at |-> opname, try |-> 0]

\* A test for None only.
CredentialsIsNone(c) == c = "absent"

\* if not credentials_json
CredentialsMissing(c) == c \in {"absent", "empty"}

\* The exception authenticate_google_sheets raises for a missing credential.
MissingError == [kind |-> "ValueError", at |-> "authenticate", try |-> 0]

\* A clear that leaves the cells in place.
NotCleared(cells) == cells

\* worksheet.clear()
Cleared(cells) == NoCells

\* A tab sized without its header row.
CreateRowsNoHeader(frame) == Len(frame.rows)

\* add_worksheet(rows=len(dataframe) + 1, cols=len(dataframe.columns))
CreateRows(frame) == Len(frame.rows) + 1
CreateCols(frame) == Len(frame.columns)

\* worksheet.update(values): the values are written from cell A1.
Written(cells, values) ==
    LET new == CellsOf(values)
    IN  [p \in (DOMAIN cells) \cup (DOMAIN new) |->
            IF p \in DOMAIN new THEN new[p] ELSE cells[p]]

\* The Sheets API stores scalar cells only.
Accepted(values) ==
    \A r \in DOMAIN values : \A c \in DOMAIN values[r] : ~IsNested(values[r][c])

Call(tab, frame) ==
    /\ upc' = "auth"
    /\ upTab' = tab
    /\ upDf' = frame
    /\ ops' = <<>>
    /\ prior' = IF tab \in DOMAIN sheet THEN sheet[tab] ELSE NoCells
    /\ sheet' = sheet

Raise(opname, e) ==
    /\ ops' = Append(ops, Op(opname, "error", 0, 0, <<>>))
    /\ exc' = e
    /\ upc' = "raised"

\* authenticate_google_sheets: the credential is missing.
AuthenticateMissing ==
    /\ upc = "auth"
    /\ CredentialsMissing(credentials)
    /\ Raise("authenticate", MissingError)
    /\ UNCHANGED <<pc, fetchVars, credentials, tableVars, files, sheet, upTab, upDf, prior>>

\* authenticate_google_sheets: gspread.authorize returns a client or raises.
Authenticate ==
    /\ upc = "auth"
    /\ ~CredentialsMissing(credentials)
    /\ \/ /\ ops' = Append(ops, Op("authenticate", "ok", 0, 0, <<>>))
          /\ upc' = "open"
          /\ exc' = exc
       \/ Raise("authenticate", SheetError("authenticate"))
    /\ UNCHANGED <<pc, fetchVars, credentials, tableVars, files, sheet, upTab, upDf, prior>>

\* client.open_by_key(sheet_id)
Open ==
    /\ upc = "open"
    /\ \/ /\ ops' = Append(ops, Op("open_by_key", "ok", 0, 0, <<>>))
          /\ upc' = "locate"
          /\ exc' = exc
       \/ Raise("open_by_key", SheetError("open_by_key"))
    /\ UNCHANGED <<pc, fetchVars, credentials, tableVars, files, sheet, upTab, upDf, prior>>

\* sheet.worksheet(tab_name): found, WorksheetNotFound, or another error.
Locate ==
    /\ upc = "locate"
    /\ \/ /\ upTab \in DOMAIN sheet
          /\ ops' = Append(ops, Op("worksheet", "ok", 0, 0, <<>>))
          /\ upc' = "clear"
          /\ exc' = exc
       \/ /\ upTab \notin DOMAIN sheet
          /\ ops' = Append(ops, Op("worksheet", "notfound", 0, 0, <<>>))
          /\ upc' = "create"
          /\ exc' = exc
       \/ Raise("worksheet", SheetError("worksheet"))
    /\ UNCHANGED <<pc, fetchVars, credentials, tableVars, files, sheet, upTab, upDf, prior>>

\* worksheet.clear()
Clear ==
    /\ upc = "clear"
    /\ \/ /\ ops' = Append(ops, Op("clear", "ok", 0, 0, <<>>))
          /\ sheet' = [sheet EXCEPT ![upTab] = Cleared(@)]
          /\ upc' = "update"
          /\ exc' = exc
       \/ /\ Raise("clear", SheetError("clear"))
          /\ sheet' = sheet
    /\ UNCHANGED <<pc, fetchVars, credentials, tableVars, files, upTab, upDf, prior>>

\* except WorksheetNotFound: sheet.add_worksheet(...)
Create ==
    /\ upc = "create"
    /\ \/ /\ ops' = Append(ops, Op("add_worksheet", "ok", CreateRows(upDf), CreateCols(upDf), <<>>))
          /\ sheet' = [t \in (DOMAIN sheet) \cup {upTab} |->
                          IF t = upTab THEN NoCells ELSE sheet[t]]
          /\ upc' = "update"
          /\ exc' = exc
       \/ /\ Raise("add_worksheet", SheetError("add_worksheet"))
          /\ sheet' = sheet
    /\ UNCHANGED <<pc, fetchVars, credentials, tableVars, files, upTab, upDf, prior>>

\* dataframe.apply(flatten_data), then the one worksheet.update call.
Update ==
    /\ upc = "update"
    /\ LET values == Payload(FrameApply(upDf))
       IN  \/ /\ Accepted(values)
              /\ ops' = Append(ops, Op("update", "ok", 0, 0, values))
              /\ sheet' = [sheet EXCEPT ![upTab] = Written(@, values)]
              /\ upc' = "returned"
              /\ exc' = exc
           \/ /\ ops' = Append(ops, Op("update", "error", 0, 0, values))
              /\ exc' = SheetError("update")
              /\ upc' = "raised"
              /\ sheet' = sheet
    /\ UNCHANGED <<pc, fetchVars, credentials, tableVars, files, upTab, upDf, prior>>

Upload == AuthenticateMissing \/ Authenticate \/ Open \/ Locate \/ Clear \/ Create \/ Update

\* ------------------------------------------------------- the orchestration
\* upload_to_google_sheets(SHEET_ID, "Preopen", df)
UploadPreopen ==
    /\ pc = "upload_preopen"
    /\ upc = "idle"
    /\ Call("Preopen", df)
    /\ UNCHANGED <<pc, fetchVars, exc, credentials, tableVars, files>>

\* preopen_summary_df = pd.DataFrame([preopen_summary]), then its upload.
UploadSummary ==
    /\ pc = "upload_fo"
    /\ upc = "idle"
    /\ Call("FO Preopen Data", SummaryFrame(SummaryColumns(nse_data), preopen_summary))
    /\ UNCHANGED <<pc, fetchVars, exc, credentials, tableVars, files>>

\* The call returns and the script goes on with the next statement.
UploadReturns ==
    /\ pc \in {"upload_preopen", "upload_fo"}
    /\ upc = "returned"
    /\ pc' = IF pc = "upload_preopen" THEN "csv_preopen" ELSE "csv_fo"
    /\ upc' = "idle"
    /\ UNCHANGED <<fetchVars, exc, credentials, tableVars, files, sheet, upTab, upDf, ops, prior>>

\* The call raises: nothing at module level catches it.
UploadRaises ==
    /\ pc \in {"upload_preopen", "upload_fo"}
    /\ upc = "raised"
    /\ pc' = "crashed"
    /\ UNCHANGED <<fetchVars, exc, credentials, tableVars, files, uploadVars, prior>>

Script ==
    \/ Fetch \/ BuildTable \/ BuildTableRaises \/ NoData
    \/ SaveDataCsv \/ UploadPreopen \/ SavePreopenCsv \/ UploadSummary \/ SaveSummaryCsv
    \/ UploadReturns \/ UploadRaises \/ Upload

Blank ==
    /\ attempt = 0 /\ response = NoResponse /\ nse_data = None
    /\ log = <<>> /\ sleeps = <<>> /\ primeGets = 0 /\ dataGets = 0
    /\ exc = NoExc
    /\ cleaned_data = <<>> /\ preopen_summary = NoCells /\ df = EmptyFrame
    /\ files = {}
    /\ upc = "idle" /\ upTab = "Preopen" /\ upDf = EmptyFrame /\ ops = <<>>
    /\ prior = NoCells

\* One run of the script.  The "Preopen" tab exists from an earlier run, the
\* "FO Preopen Data" tab does not exist yet.
Init ==
    /\ pc = "loop"
    /\ retries \in 0..MaxRetries
    /\ delay \in Delays
    /\ credentials \in Environment
    /\ sheet = [t \in {"Preopen"} |-> CellsOf(Payload(EarlierFrame))]
    /\ Blank

Next == Script

Spec == Init /\ [][Next]_vars

\* --------------------------------------- the upload function on its own
\* The tables handed to the function: rows x cols cells, the last column
\* holding lists when nested.
Frame(nrows, ncols, nested) ==
    LET cols == [c \in 1..ncols |-> "c" \o ToString(c)]
    IN  DataFrame(cols,
            [r \in 1..nrows |->
                [n \in {cols[c] : c \in 1..ncols} |->
                    IF nested /\ n = cols[ncols]
                    THEN List("[" \o ToString(r) \o "]", <<Num(ToString(r))>>)
                    ELSE Num(ToString(r) \o n)]])

Frames == { Frame(n, m, k) : n \in 0..MaxRows, m \in 0..MaxCols, k \in BOOLEAN }

\* The function is called again and again on a spreadsheet that starts
\* without tabs.
UploadAgain ==
    /\ pc = "uploads"
    /\ upc \in {"idle", "returned", "raised"}
    /\ \E tab \in Tabs, frame \in Frames : Call(tab, frame)
    /\ exc' = NoExc
    /\ UNCHANGED <<pc, fetchVars, credentials, tableVars, files>>

InitSink ==
    /\ pc = "uploads"
    /\ retries = DefaultRetries
    /\ delay = DefaultDelay
    /\ credentials \in Environment
    /\ sheet = NoCells
    /\ Blank

NextSink == UploadAgain \/ Upload

SpecSink == InitSink /\ [][NextSink]_vars

\* ------------------------------------ the table-building step on its own
InitTable ==
    /\ pc = "process"
    /\ retries = DefaultRetries
    /\ delay = DefaultDelay
    /\ credentials = "valid"
    /\ sheet = NoCells
    /\ attempt = 0 /\ response = NoResponse /\ nse_data \in TableBodies
    /\ log = <<>> /\ sleeps = <<>> /\ primeGets = 1 /\ dataGets = 1
    /\ exc = NoExc
    /\ cleaned_data = <<>> /\ preopen_summary = NoCells /\ df = EmptyFrame
    /\ files = {}
    /\ upc = "idle" /\ upTab = "Preopen" /\ upDf = EmptyFrame /\ ops = <<>>
    /\ prior = NoCells

NextTable == BuildTable \/ BuildTableRaises

SpecTable == InitTable /\ [][NextTable]_vars

\* ================================================================ properties
FetchPcs == {"loop", "prime", "data", "check"}
FetchRaised == pc = "crashed" /\ exc.at = "fetch"
FetchReturned == pc = "process"
Succeeded == pc \notin FetchPcs /\ ~FetchRaised /\ primeGets > Len(log)
Kinds == [i \in DOMAIN log |-> log[i].error.kind]

\* C1: with retries >= 1, a fetch that fails k < retries times and then
\* succeeds returns the parsed body of the successful response after exactly
\* k+1 attempts; a fetch whose attempts all fail raises after exactly retries
\* attempts; an attempt beyond retries is never made.
RetryCount ==
    /\ primeGets <= retries
    /\ (FetchReturned /\ retries >= 1) =>
          /\ Len(log) < retries
          /\ primeGets = Len(log) + 1
          /\ response.status = StatusOK
          /\ response.body.json # "invalid"
          /\ nse_data = response.body
    /\ (FetchRaised /\ retries >= 1) =>
          /\ Len(log) = retries
          /\ primeGets = retries

RetryCountWitness ==
    /\ FetchReturned
    /\ retries = 3
    /\ Len(log) = 2
    /\ primeGets = 3
    /\ HasData(nse_data)

\* C8: every failure, whatever its kind, consumes exactly one attempt; an
\* attempt whose priming GET fails makes no data request; the error raised
\* when the retries are exhausted is the error of the last attempt.
FailuresAlike ==
    /\ Len(log) = attempt
    /\ \A i \in DOMAIN log : log[i].attempt = i /\ log[i].error.try = i
    /\ primeGets = Len(log) + (IF pc \in {"data", "check"} \/ Succeeded THEN 1 ELSE 0)
    /\ dataGets = Cardinality({i \in DOMAIN log : log[i].error.kind # "prime"})
                  + (IF pc = "check" \/ Succeeded THEN 1 ELSE 0)
    /\ FetchRaised =>
          /\ Len(log) = retries
          /\ exc = log[Len(log)].error
          /\ exc.try = retries

FailuresAlikeWitness ==
    /\ FetchRaised
    /\ retries = 3
    /\ Kinds = <<"prime", "parse", "status">>
    /\ dataGets = 2
    /\ exc.kind = "status"

\* C10: the fetch sleeps exactly once after each failed attempt that is
\* followed by another attempt, always for delay: k sleeps when it succeeds
\* after k failures, retries-1 sleeps when it raises.
FixedDelay ==
    /\ \A i \in DOMAIN sleeps : sleeps[i] = delay
    /\ Len(sleeps) = Len(log) - (IF FetchRaised THEN 1 ELSE 0)
    /\ (FetchReturned /\ retries >= 1) => Len(sleeps) = Len(log)
    /\ FetchRaised => Len(sleeps) = retries - 1

FixedDelayWitness ==
    /\ FetchRaised
    /\ retries = 3
    /\ delay = DefaultDelay
    /\ sleeps = <<DefaultDelay, DefaultDelay>>

\* C4: the de-duplicated table holds, for every key (symbol, pChange,
\* lastPrice, previousClose) of the built rows, exactly one row; that row is
\* the first built row with the key, and the kept rows are in the order in
\* which they were built.
Key(row) == <<row.symbol, row.pChange, row.lastPrice, row.previousClose>>

FirstWith(k) ==
    CHOOSE i \in DOMAIN cleaned_data :
        /\ Key(cleaned_data[i]) = k
        /\ \A j \in 1..(i - 1) : Key(cleaned_data[j]) # k

Region(frame) ==
    {<<r, c>> : r \in 1..(Len(frame.rows) + 1), c \in 1..Len(frame.columns)}

FullReplace ==
    upc = "returned" =>
        /\ upTab \in DOMAIN sheet
        /\ DOMAIN sheet[upTab] = Region(upDf)
        /\ \A c \in 1..Len(upDf.columns) :
              /\ sheet[upTab][<<1, c>>] = Text(upDf.columns[c])
              /\ \A r \in 1..Len(upDf.rows) :
                    sheet[upTab][<<r + 1, c>>] = upDf.rows[r][upDf.columns[c]]

FullReplaceWitness ==
    /\ upc = "returned"
    /\ Len(upDf.rows) = 1
    /\ Len(upDf.columns) = 1
    /\ \E p \in DOMAIN prior : p[1] > 2
    /\ \E p \in DOMAIN prior : p[2] > 1
    /\ DOMAIN sheet[upTab] = Region(upDf)

\* C9: the operations of one upload call are a prefix of authenticate, open,
\* locate, then clear or create, then one bulk write; an operation follows
\* only a successful one (create follows the tab-not-found of locate); the
\* tab is created with rows+1 rows and cols columns; the bulk write starts
\* with the header row; a call that returns has made exactly one bulk write.
OpNames == [i \in DOMAIN ops |-> ops[i].op]
IsPrefix(s, t) == Len(s) <= Len(t) /\ \A i \in DOMAIN s : s[i] = t[i]
WithClear == <<"authenticate", "open_by_key", "worksheet", "clear", "update">>
WithCreate == <<"authenticate", "open_by_key", "worksheet", "add_worksheet", "update">>

UploadOrder ==
    /\ IsPrefix(OpNames, WithClear) \/ IsPrefix(OpNames, WithCreate)
    /\ \A i \in 1..(Len(ops) - 1) :
          \/ ops[i].result = "ok" /\ ops[i + 1].op # "add_worksheet"
          \/ /\ ops[i].op = "worksheet"
             /\ ops[i].result = "notfound"
             /\ ops[i + 1].op = "add_worksheet"
    /\ \A i \in DOMAIN ops :
          /\ ops[i].op = "add_worksheet" /\ ops[i].result = "ok" =>
                /\ ops[i].rows = Len(upDf.rows) + 1
                /\ ops[i].cols = Len(upDf.columns)
          /\ ops[i].op = "update" =>
                /\ Len(ops[i].values) = Len(upDf.rows) + 1
                /\ ops[i].values[1] = [c \in DOMAIN upDf.columns |-> Text(upDf.columns[c])]
    /\ upc = "returned" =>
          /\ Len(ops) = 5
          /\ ops[5].op = "update"
          /\ ops[5].result = "ok"
    /\ upc = "raised" => ops # <<>> /\ ops[Len(ops)].result = "error"

UploadOrderWitness ==
    /\ upc = "returned"
    /\ OpNames = WithCreate
    /\ ops[4].rows = 3
    /\ ops[4].cols = 2

\* C6 as stated: the values of the bulk write are the header and the cells
\* of the table with every nested cell replaced by its string rendering and
\* every other cell unchanged.
Flattened(v) == IF IsNested(v) THEN str(v) ELSE v

NestedCellsFlattened ==
    \A i \in DOMAIN ops :
        ops[i].op = "update" =>
            /\ Len(ops[i].values) = Len(upDf.rows) + 1
            /\ \A r \in 1..Len(upDf.rows) :
                  ops[i].values[r + 1] =
                      [c \in DOMAIN upDf.columns |-> Flattened(upDf.rows[r][upDf.columns[c]])]

\* C2 as stated: a failure of the spreadsheet sink during the upload to the
\* "Preopen" tab does not end the run.
PreopenFailureDoesNotAbort ==
    ~(credentials = "valid" /\ pc = "crashed" /\ upc = "raised" /\ upTab = "Preopen")

\* C3 as stated: the run never ends with an uncaught error.
ExitsZero == pc # "crashed"

\* C7 as stated: with the credential absent or empty, nothing has been
\* written to any sink when the configuration error is raised.
NoSinkBeforeAbort ==
    (credentials \in {"absent", "empty"} /\ exc = MissingError) =>
        /\ files = {}
        /\ Len(ops) = 1

\* C7, amended: with the credential absent or empty, an upload call raises the
\* configuration error in authenticate, once, and ends the run; no
\* spreadsheet operation is made and no tab changes; preopen_data.csv is the
\* one sink written before the abort.
MissingCredentialAborts ==
    credentials \in {"absent", "empty"} =>
        /\ sheet = [t \in {"Preopen"} |-> CellsOf(Payload(EarlierFrame))]
        /\ Len(ops) <= 1
        /\ \A i \in DOMAIN ops : ops[i].op = "authenticate" /\ ops[i].result = "error"
        /\ files \subseteq {"preopen_data.csv"}
        /\ upTab = "Preopen"
        /\ upc \in {"idle", "auth", "raised"}
        /\ pc \notin {"csv_preopen", "upload_fo", "csv_fo"}
        /\ upc = "raised" =>
              /\ exc = MissingError
              /\ files = {"preopen_data.csv"}
              /\ Len(ops) = 1
        /\ pc = "done" => ~HasData(nse_data)

MissingCredentialWitness ==
    /\ credentials = "empty"
    /\ pc = "crashed"
    /\ exc = MissingError
    /\ files = {"preopen_data.csv"}
    /\ Len(ops) = 1

====
